---- MODULE Spec2Model ----
(***************************************************************************)
(* Model of the chunking-and-reassembly pipeline of ENVITranslator         *)
(* (src/envi_translator/translator.py) and of the /translate_batch         *)
(* handler (src/main.py).                                                  *)
(*                                                                         *)
(* A Python str is a sequence of one-character strings.  The alphabet has  *)
(* one letter, one sentence terminator, the space and the newline; "b" is  *)
(* the letter as rendered by a translating provider.                       *)
(***************************************************************************)
EXTENDS Integers, Sequences, FiniteSets, TLC

\* ---------------------------------------------------------------- bounds
MaxLen == 4          \* longest document handed to translate_text
MaxStr == 6          \* longest string handed to _chunk_text directly
MaxCfgLen == 2       \* longest document tried with an unvalidated configuration
MaxChars == 3        \* largest max_chars
MaxRetries == 1      \* largest retries
MaxFails == 2        \* provider failures injected during one run
MaxItems == 3        \* longest batch
MaxBatchLen == 1     \* longest text of a batch item
MaxRetryLen == 2     \* longest document of the runs that follow the backoff
MaxBackoffTries == 3 \* largest retries, and most failures, of those runs

\* ------------------------------------------------------------- alphabet
Chars == {"a", ".", " ", "\n"}

\* str.isspace() on the alphabet: what \s matches and what strip() removes
IsSpace(c) == c \in {" ", "\n"}

\* the character class [\.!?...] of the sentence regex
IsTerm(c) == c = "."

RECURSIVE StrOfLen(_)
StrOfLen(n) == IF n = 0 THEN {<<>>}
               ELSE {Append(s, c) : s \in StrOfLen(n - 1), c \in Chars}

StrUpTo(n) == UNION {StrOfLen(k) : k \in 0..n}

\* "".join(list)
RECURSIVE Join(_)
Join(l) == IF l = <<>> THEN <<>> ELSE Head(l) \o Join(Tail(l))

\* the check as `if not line:`, which lets a line of spaces through to the provider
IsBlank_EmptyOnly(line) == line = <<>>

\* not line.strip()
IsBlank(line) == \A i \in 1..Len(line) : IsSpace(line[i])

\* s.endswith("\n")
EndsWithNewline(s) == Len(s) > 0 /\ s[Len(s)] = "\n"

\* ------------------------------------------------- text.splitlines(True)
RECURSIVE SplitLinesFrom(_, _, _)
SplitLinesFrom(text, i, cur) ==
  IF i > Len(text) THEN (IF cur = <<>> THEN <<>> ELSE <<cur>>)
  ELSE IF text[i] = "\n"
       THEN <<Append(cur, text[i])>> \o SplitLinesFrom(text, i + 1, <<>>)
       ELSE SplitLinesFrom(text, i + 1, Append(cur, text[i]))

splitlines(text) == SplitLinesFrom(text, 1, <<>>)

\* ------------------------------ re.split(r"(?<=[\.!?...])\s+", text)
\* first index after the run of whitespace that starts at i
RECURSIVE SkipSpace(_, _)
SkipSpace(text, i) ==
  IF i <= Len(text) /\ IsSpace(text[i]) THEN SkipSpace(text, i + 1) ELSE i

RECURSIVE ReSplitFrom(_, _, _)
ReSplitFrom(text, i, cur) ==
  IF i > Len(text) THEN <<cur>>
  ELSE IF i > 1 /\ IsTerm(text[i - 1]) /\ IsSpace(text[i])
       THEN <<cur>> \o ReSplitFrom(text, SkipSpace(text, i), <<>>)
       ELSE ReSplitFrom(text, i + 1, Append(cur, text[i]))

re_split(text) == ReSplitFrom(text, 1, <<>>)

\* ------------------------------------------------------- ch.split(" ")
RECURSIVE SplitSpaceFrom(_, _, _)
SplitSpaceFrom(ch, i, cur) ==
  IF i > Len(ch) THEN <<cur>>
  ELSE IF ch[i] = " "
       THEN <<cur>> \o SplitSpaceFrom(ch, i + 1, <<>>)
       ELSE SplitSpaceFrom(ch, i + 1, Append(cur, ch[i]))

split_space(ch) == SplitSpaceFrom(ch, 1, <<>>)

\* ------------------------------------------------ _chunk_text, pass 1
\* s_with_space = (s + " ") if not s.endswith("\n") else s
SWithSpace(s) == IF EndsWithNewline(s) THEN s ELSE Append(s, " ")

\* the loop over sentences; st = [chunks, buf]
RECURSIVE SentenceLoop(_, _, _)
SentenceLoop(sentences, st, max_chars) ==
  IF sentences = <<>> THEN st
  ELSE LET sws == SWithSpace(Head(sentences))
           nxt == IF st.buf = <<>>
                  THEN [chunks |-> st.chunks, buf |-> sws]
                  ELSE IF Len(st.buf) + Len(sws) <= max_chars
                  THEN [chunks |-> st.chunks, buf |-> st.buf \o sws]
                  ELSE [chunks |-> Append(st.chunks, st.buf), buf |-> sws]
       IN SentenceLoop(Tail(sentences), nxt, max_chars)

\* pass 1 without the flush of the last buffer (127-128)
SentencePass_NoFlush(text, max_chars) ==
  SentenceLoop(re_split(text), [chunks |-> <<>>, buf |-> <<>>], max_chars).chunks

SentencePass(text, max_chars) ==
  LET st == SentenceLoop(re_split(text), [chunks |-> <<>>, buf |-> <<>>], max_chars)
  IN IF st.buf # <<>> THEN Append(st.chunks, st.buf) ELSE st.chunks

\* ------------------------------------------------ _chunk_text, pass 2
\* the loop over words; st = [refined, cur]
RECURSIVE WordLoop(_, _, _)
WordLoop(words, st, max_chars) ==
  IF words = <<>> THEN st
  ELSE LET seg == Append(Head(words), " ")
           nxt == IF st.cur = <<>>
                  THEN [refined |-> st.refined, cur |-> seg]
                  ELSE IF Len(st.cur) + Len(seg) <= max_chars
                  THEN [refined |-> st.refined, cur |-> st.cur \o seg]
                  ELSE [refined |-> Append(st.refined, st.cur), cur |-> seg]
       IN WordLoop(Tail(words), nxt, max_chars)

RECURSIVE WordPass(_, _)
WordPass(chunks, max_chars) ==
  IF chunks = <<>> THEN <<>>
  ELSE LET ch == Head(chunks)
           st == WordLoop(split_space(ch), [refined |-> <<>>, cur |-> <<>>], max_chars)
           part == IF Len(ch) <= max_chars THEN <<ch>>
                   ELSE IF st.cur # <<>> THEN Append(st.refined, st.cur)
                   ELSE st.refined
       IN part \o WordPass(Tail(chunks), max_chars)

\* ------------------------------------------------ _chunk_text, pass 3
\* [ch[i : i + max_chars] for i in range(0, len(ch), max_chars)], i 0-based;
\* a negative step makes the range empty, a zero step raises (HardRaises)
RECURSIVE HardCut(_, _, _)
HardCut(ch, i, max_chars) ==
  IF max_chars <= 0 \/ i >= Len(ch) THEN <<>>
  ELSE LET hi == IF i + max_chars < Len(ch) THEN i + max_chars ELSE Len(ch)
       IN <<SubSeq(ch, i + 1, hi)>> \o HardCut(ch, i + max_chars, max_chars)

\* pass 3 left out: pieces still too long are returned as they are
HardPass_NoCut(refined, max_chars) == refined

RECURSIVE HardPass(_, _)
HardPass(refined, max_chars) ==
  IF refined = <<>> THEN <<>>
  ELSE LET ch == Head(refined)
           part == IF Len(ch) <= max_chars THEN <<ch>> ELSE HardCut(ch, 0, max_chars)
       IN part \o HardPass(Tail(refined), max_chars)

\* range(0, len(ch), 0) raises ValueError for a piece still too long
HardRaises(refined, max_chars) ==
  max_chars = 0 /\ \E k \in 1..Len(refined) : Len(refined[k]) > max_chars

\* ------------------------------------------------------- _chunk_text
chunk_text(text, max_chars) ==
  IF Len(text) <= max_chars THEN <<text>>
  ELSE HardPass(WordPass(SentencePass(text, max_chars), max_chars), max_chars)

chunk_text_raises(text, max_chars) ==
  /\ Len(text) > max_chars
  /\ HardRaises(WordPass(SentencePass(text, max_chars), max_chars), max_chars)

\* ------------------------------------------------------------ state
VARIABLES
  text, preserve_format, max_chars, retries, backoff,  \* arguments of translate_text
  provider,           \* which stub stands for self._translator
  failsLeft,          \* failures the stub may still inject
  pc,                 \* position of the translate_text call
  lines, out,         \* lines still to process (45), out (44)
  chunks, translated_chunks,   \* chunks still to process (51), translated_chunks (50)
  arg, attempt,       \* _retry_translate: its text argument, attempt (93)
  tries, rt,          \* provider invocations and outcome of the latest _retry_translate of the line
  calls, sleeps,      \* every provider invocation, every time.sleep, in order
  result, error,      \* what translate_text returned / raised
  items, idx, outputs, http    \* translate_batch: req.items, loop index, outputs, status

argVars == <<preserve_format, max_chars, retries, backoff, provider>>
frameVars == <<lines, out, chunks, translated_chunks, arg, attempt, tries, rt>>
batchVars == <<items, idx, outputs, http>>
vars == <<text, argVars, failsLeft, pc, frameVars, calls, sleeps, result, error, batchVars>>

Providers == {"identity", "translate"}

NoError == [kind |-> "none", n |-> 0]

\* self._translator.translate(t) when it succeeds: the identity stub, or a
\* stub that renders every letter in the target language
Translate(t) ==
  IF provider = "identity" THEN t
  ELSE [i \in 1..Len(t) |-> IF t[i] = "a" THEN "b" ELSE t[i]]

\* the state at the moment translate_text(t, ...) is called
CallState(t, pf, mc, r, b, p) ==
  /\ text = t /\ preserve_format = pf /\ max_chars = mc /\ retries = r
  /\ backoff = b /\ provider = p
  /\ failsLeft = MaxFails
  /\ lines = <<>> /\ out = <<>> /\ chunks = <<>> /\ translated_chunks = <<>>
  /\ arg = <<>> /\ attempt = 0 /\ tries = 0 /\ rt = "idle"
  /\ calls = <<>> /\ sleeps = <<>> /\ result = <<>> /\ error = NoError

\* a direct call of translate_text: any document with a configuration in the
\* documented ranges, or a short document with any configuration (the CLI and
\* /translate_batch pass max_chars, retries and backoff through unvalidated)
Init ==
  /\ pc = "call"
  /\ items = <<>> /\ idx = 0 /\ outputs = <<>> /\ http = 0
  /\ \/ \E t \in StrUpTo(MaxLen), pf \in BOOLEAN, mc \in 1..MaxChars,
           r \in 0..MaxRetries, b \in {0, 1}, p \in Providers :
             CallState(t, pf, mc, r, b, p)
     \/ \E t \in StrUpTo(MaxCfgLen), pf \in BOOLEAN, mc \in (-1)..MaxChars,
           r \in (-1)..MaxRetries, b \in {-1, 0, 1}, p \in Providers :
             CallState(t, pf, mc, r, b, p)

\* ---------------------------------------------------- translate_text
\* lines 36-44: the empty check, the preserve_format branch, splitlines
Enter ==
  /\ pc = "call"
  /\ out' = <<>> /\ chunks' = <<>> /\ translated_chunks' = <<>>
  /\ attempt' = 0 /\ tries' = 0
  /\ error' = NoError
  /\ IF text = <<>>
     THEN /\ pc' = "returned" /\ result' = <<>>
          /\ lines' = <<>> /\ arg' = <<>> /\ rt' = "idle"
     ELSE IF ~preserve_format
     THEN /\ pc' = "try" /\ arg' = text /\ rt' = "running"
          /\ lines' = <<>> /\ result' = <<>>
     ELSE /\ pc' = "line" /\ lines' = splitlines(text)
          /\ arg' = <<>> /\ rt' = "idle" /\ result' = <<>>
  /\ UNCHANGED <<text, argVars, failsLeft, calls, sleeps, batchVars>>

\* lines 45-49 and 57: one turn of the loop over lines up to the chunking,
\* or the return after the last line
NextLine ==
  /\ pc = "line"
  /\ IF lines = <<>>
     THEN /\ pc' = "returned" /\ result' = Join(out)
          /\ UNCHANGED <<lines, out, chunks, translated_chunks, error>>
     ELSE IF IsBlank(Head(lines))
     THEN /\ out' = Append(out, Head(lines)) /\ lines' = Tail(lines)
          /\ UNCHANGED <<pc, result, chunks, translated_chunks, error>>
     ELSE IF chunk_text_raises(Head(lines), max_chars)
     THEN /\ pc' = "raised" /\ error' = [kind |-> "ValueError", n |-> Len(calls)]
          /\ UNCHANGED <<lines, out, result, chunks, translated_chunks>>
     ELSE /\ chunks' = chunk_text(Head(lines), max_chars)
          /\ translated_chunks' = <<>>
          /\ pc' = "chunk"
          /\ UNCHANGED <<lines, out, result, error>>
  /\ UNCHANGED <<text, argVars, failsLeft, arg, attempt, tries, rt, calls, sleeps, batchVars>>

\* lines 51-52 and 56: one turn of the loop over chunks up to the call of
\* _retry_translate (93), or out.append after the last chunk
NextChunk ==
  /\ pc = "chunk"
  /\ IF chunks = <<>>
     THEN /\ out' = Append(out, Join(translated_chunks))
          /\ lines' = Tail(lines)
          /\ pc' = "line" /\ rt' = "idle"
          /\ UNCHANGED <<arg, attempt, tries>>
     ELSE /\ arg' = Head(chunks) /\ attempt' = 0 /\ tries' = 0 /\ rt' = "running"
          /\ pc' = "try"
          /\ UNCHANGED <<out, lines>>
  /\ UNCHANGED <<text, argVars, failsLeft, chunks, translated_chunks, calls, sleeps,
                 result, error, batchVars>>

\* the record of one provider invocation: the text, the line it came from
\* (0 when the whole document is sent) and whether the provider answered
CallRec(succeeded) ==
  [text |-> arg, line |-> IF preserve_format THEN Len(out) + 1 ELSE 0, ok |-> succeeded]

\* line 96 succeeding: _retry_translate returns, then 55 or the return of 40
TrySucceed ==
  /\ pc = "try"
  /\ calls' = Append(calls, CallRec(TRUE))
  /\ tries' = tries + 1
  /\ rt' = "ok"
  /\ IF preserve_format
     THEN /\ translated_chunks' = Append(translated_chunks, Translate(arg))
          /\ chunks' = Tail(chunks)
          /\ pc' = "chunk"
          /\ UNCHANGED result
     ELSE /\ pc' = "returned" /\ result' = Translate(arg)
          /\ UNCHANGED <<chunks, translated_chunks>>
  /\ UNCHANGED <<text, argVars, failsLeft, lines, out, arg, attempt, sleeps, error, batchVars>>

\* the delay of line 101 with the exponent one too high
SleepLen_ExponentOff(b, att) == b * (2 ^ att)

\* line 101: backoff * (2 ** (attempt - 1))
SleepLen(b, att) == b * (2 ^ (att - 1))

\* the record of one time.sleep: its length, and the number of provider
\* invocations made so far, the last of which is the failure it follows
SleepRec(att) == [dur |-> SleepLen(backoff, att), after |-> Len(calls) + 1]

\* the test of line 99 as `attempt >= retries`: one attempt too few
Exhausted_OffByOne(att, r) == att >= r

\* line 99: if attempt > retries
Exhausted(att, r) == att > r

\* line 96 raising, with the failure swallowed once the retries are exhausted:
\* an empty translation stands for the chunk and the document goes on
TryFail_Swallow ==
  /\ pc = "try"
  /\ failsLeft > 0
  /\ failsLeft' = failsLeft - 1
  /\ calls' = Append(calls, CallRec(FALSE))
  /\ tries' = tries + 1
  /\ attempt' = attempt + 1
  /\ UNCHANGED error
  /\ IF Exhausted(attempt + 1, retries)
     THEN /\ rt' = "raised"
          /\ UNCHANGED sleeps
          /\ IF preserve_format
             THEN /\ translated_chunks' = Append(translated_chunks, <<>>)
                  /\ chunks' = Tail(chunks)
                  /\ pc' = "chunk"
                  /\ UNCHANGED result
             ELSE /\ pc' = "returned" /\ result' = <<>>
                  /\ UNCHANGED <<chunks, translated_chunks>>
     ELSE /\ sleeps' = Append(sleeps, SleepRec(attempt + 1))
          /\ UNCHANGED <<pc, rt, chunks, translated_chunks, result>>
  /\ UNCHANGED <<text, argVars, lines, out, arg, batchVars>>

\* line 96 raising: 97-101
TryFail ==
  /\ pc = "try"
  /\ failsLeft > 0
  /\ failsLeft' = failsLeft - 1
  /\ calls' = Append(calls, CallRec(FALSE))
  /\ tries' = tries + 1
  /\ attempt' = attempt + 1
  /\ IF Exhausted(attempt + 1, retries)
     THEN /\ pc' = "raised" /\ rt' = "raised"
          /\ error' = [kind |-> "provider", n |-> Len(calls) + 1]
          /\ UNCHANGED sleeps
     ELSE IF backoff < 0
     THEN \* time.sleep of a negative length raises ValueError
          /\ pc' = "raised" /\ rt' = "raised"
          /\ error' = [kind |-> "ValueError", n |-> Len(calls) + 1]
          /\ UNCHANGED sleeps
     ELSE \* line 101, attempt + 1 being the value line 98 has just assigned
          /\ sleeps' = Append(sleeps, SleepRec(attempt + 1))
          /\ UNCHANGED <<pc, rt, error>>
  /\ UNCHANGED <<text, argVars, lines, out, chunks, translated_chunks, arg, result, batchVars>>

NextText == Enter \/ NextLine \/ NextChunk \/ TrySucceed \/ TryFail

Next == NextText

Spec == Init /\ [][Next]_vars

\* --------------------------------------- translate_text, many retries
\* a direct call of translate_text on a short document, with up to
\* MaxBackoffTries retries, as many injected failures, and a backoff of
\* zero, one or three seconds
InitRetry ==
  /\ pc = "call"
  /\ items = <<>> /\ idx = 0 /\ outputs = <<>> /\ http = 0
  /\ \E t \in StrUpTo(MaxRetryLen), pf \in BOOLEAN, mc \in 1..MaxChars,
        r \in 0..MaxBackoffTries, b \in {0, 1, 3} :
        /\ text = t /\ preserve_format = pf /\ max_chars = mc /\ retries = r
        /\ backoff = b /\ provider = "identity"
  /\ failsLeft = MaxBackoffTries
  /\ lines = <<>> /\ out = <<>> /\ chunks = <<>> /\ translated_chunks = <<>>
  /\ arg = <<>> /\ attempt = 0 /\ tries = 0 /\ rt = "idle"
  /\ calls = <<>> /\ sleeps = <<>> /\ result = <<>> /\ error = NoError

NextRetry == NextText

SpecRetry == InitRetry /\ [][NextRetry]_vars

\* ------------------------------------- _chunk_text called on its own
\* ENVITranslator._chunk_text is a static method: any string, any max_chars
InitChunk ==
  /\ pc = "chunk_call"
  /\ items = <<>> /\ idx = 0 /\ outputs = <<>> /\ http = 0
  /\ \E t \in StrUpTo(MaxStr), mc \in (-1)..MaxChars :
        CallState(t, TRUE, mc, 0, 0, "identity")

\* lines 104-158 as one call; chunks holds the returned list
ChunkCall ==
  /\ pc = "chunk_call"
  /\ IF chunk_text_raises(text, max_chars)
     THEN /\ pc' = "raised" /\ error' = [kind |-> "ValueError", n |-> 0]
          /\ UNCHANGED chunks
     ELSE /\ pc' = "chunked" /\ chunks' = chunk_text(text, max_chars)
          /\ UNCHANGED error
  /\ UNCHANGED <<text, argVars, failsLeft, lines, out, translated_chunks, arg, attempt,
                 tries, rt, calls, sleeps, result, batchVars>>

NextChunkCall == ChunkCall

SpecChunk == InitChunk /\ [][NextChunkCall]_vars

\* ------------------------------------------- translate_batch (main.py)
\* the request: its items and the configuration shared by all of them
InitBatch ==
  /\ pc = "idle"
  /\ idx = 1 /\ outputs = <<>> /\ http = 0
  /\ \E n \in 0..MaxItems : items \in [1..n -> StrUpTo(MaxBatchLen)]
  /\ \E pf \in BOOLEAN, mc \in 1..MaxChars, r \in 0..MaxRetries, p \in Providers :
        CallState(<<>>, pf, mc, r, 1, p)

\* lines 139-147: the next item is handed to translate_text;
\* line 149: after the last item the outputs are the response
BatchNext ==
  /\ idx >= 1 /\ http = 0 /\ pc = "idle"
  /\ IF idx > Len(items)
     THEN /\ http' = 200
          /\ UNCHANGED <<text, pc>>
     ELSE /\ text' = items[idx] /\ pc' = "call"
          /\ UNCHANGED http
  /\ UNCHANGED <<argVars, failsLeft, frameVars, calls, sleeps, result, error,
                 items, idx, outputs>>

\* line 148: outputs.append(out)
BatchCollect ==
  /\ idx >= 1 /\ http = 0 /\ pc = "returned"
  /\ outputs' = Append(outputs, result)
  /\ idx' = idx + 1
  /\ pc' = "idle"
  /\ UNCHANGED <<text, argVars, failsLeft, frameVars, calls, sleeps, result, error,
                 items, http>>

\* lines 150-151: any exception of any item becomes the response
BatchFail ==
  /\ idx >= 1 /\ http = 0 /\ pc = "raised"
  /\ http' = 500
  /\ UNCHANGED <<text, argVars, failsLeft, pc, frameVars, calls, sleeps, result, error,
                 items, idx, outputs>>

\* the list of the response body: BatchTranslateResponse.translated, which
\* only a 200 response carries
ResponseTranslated == IF http = 200 THEN outputs ELSE <<>>

NextBatch == NextText \/ BatchNext \/ BatchCollect \/ BatchFail

SpecBatch == InitBatch /\ [][NextBatch]_vars

\* =================================================================
\* Properties
\* =================================================================

\* C1: with an identity provider, preserve_format = True and max_chars >= 1,
\* translate_text returns exactly the document it was given.
C1_RoundTripIdentity ==
  (pc = "returned" /\ preserve_format /\ provider = "identity" /\ max_chars >= 1)
    => result = text

\* C2: every element returned by _chunk_text(s, max_chars), max_chars >= 1,
\* has length <= max_chars.
C2_ChunkSizeBound ==
  (pc = "chunked" /\ max_chars >= 1)
    => \A k \in 1..Len(chunks) : Len(chunks[k]) <= max_chars

\* a string with a terminator, a space and a token longer than max_chars has
\* been cut into more than two pieces
C2_Witness ==
  /\ pc = "chunked" /\ max_chars = 2 /\ Len(chunks) > 2
  /\ \E i, j \in 1..Len(text) : text[i] = "." /\ text[j] = " "
  /\ \E i \in 1..(Len(text) - 2) : \A j \in i..(i + 2) : text[j] = "a"

\* C3: a _retry_translate that returns has made exactly k+1 provider
\* invocations, 0 <= k <= retries being the number of failures before the success,
\* and hands back the provider's result; one that fails has
\* made exactly retries+1 invocations and raises the failure of the last one;
\* with retries = 0 exactly one invocation is made.  (retries, backoff >= 0.)
C3_RetryCounting ==
  (retries >= 0 /\ backoff >= 0) =>
    /\ rt = "ok" =>
         /\ attempt <= retries /\ tries = attempt + 1
         /\ Len(calls) >= tries
         /\ \A j \in 1..tries :
              LET c == calls[Len(calls) - tries + j]
              IN c.text = arg /\ (c.ok <=> j = tries)
         /\ IF preserve_format
            THEN /\ translated_chunks # <<>>
                 /\ translated_chunks[Len(translated_chunks)] = Translate(arg)
            ELSE pc = "returned" /\ result = Translate(arg)
    /\ rt = "raised" =>
         /\ tries = retries + 1 /\ attempt = tries
         /\ Len(calls) >= tries
         /\ \A j \in 1..tries :
              LET c == calls[Len(calls) - tries + j]
              IN c.text = arg /\ ~c.ok
         /\ pc = "raised"
         /\ error = [kind |-> "provider", n |-> Len(calls)]
    /\ (retries = 0 /\ rt \in {"ok", "raised"}) => tries = 1

\* retries = 1 was exhausted by two failures
C3_Witness ==
  /\ rt = "raised" /\ retries = 1 /\ tries = 2 /\ backoff >= 0
  /\ error.kind = "provider"

\* C4: with preserve_format = True no provider invocation comes from a line of
\* whitespace only, such a line stands unchanged at its own position of the
\* output, and a document of blank lines only is returned as it is with no
\* provider invocation.
C4_BlankLinePassthrough ==
  preserve_format =>
    LET L == splitlines(text)
        Blank(i) == \A j \in 1..Len(L[i]) : L[i][j] \in {" ", "\n"}
    IN /\ \A k \in 1..Len(calls) :
            /\ calls[k].line \in 1..Len(L)
            /\ ~Blank(calls[k].line)
       /\ Len(out) <= Len(L)
       /\ \A i \in 1..Len(out) : Blank(i) => out[i] = L[i]
       /\ pc = "returned" =>
            /\ Len(out) = Len(L)
            /\ result = Join(out)
            /\ (\A i \in 1..Len(L) : Blank(i)) => (calls = <<>> /\ result = text)

\* a blank line between two translated lines has been passed through
C4_Witness ==
  /\ pc = "returned" /\ preserve_format /\ provider = "translate"
  /\ text = <<"a", "\n", " ", "\n">>
  /\ result = <<"b", "\n", " ", "\n">>
  /\ Len(calls) = 1

\* C5: with preserve_format = False every text handed to the provider has
\* length <= max_chars.
C5_NoFormatChunked ==
  (~preserve_format /\ max_chars >= 1)
    => \A k \in 1..Len(calls) : Len(calls[k].text) <= max_chars

\* C6: a non-empty document with max_chars <= 0, retries < 0 or
\* retry_backoff_sec < 0 never reaches the provider and never returns.
C6_InvalidConfigRejected ==
  (text # <<>> /\ (max_chars <= 0 \/ retries < 0 \/ backoff < 0))
    => (calls = <<>> /\ pc # "returned")

\* C7: once retries+1 provider invocations in a row have failed, translate_text
\* has raised the failure of the last of them, that invocation is the last one
\* made, and nothing is returned.
C7_FailureAborts ==
  \A j \in 1..Len(calls) :
    (/\ retries >= 0
     /\ j + retries <= Len(calls)
     /\ \A m \in j..(j + retries) : ~calls[m].ok)
      => /\ j + retries = Len(calls)
         /\ pc = "raised"
         /\ error = [kind |-> "provider", n |-> Len(calls)]
         /\ result = <<>>

\* the second chunk of a line failed twice with retries = 1, after the first
\* chunk had been translated, and chunks are left untranslated
C7_Witness ==
  /\ pc = "raised" /\ retries = 1 /\ preserve_format
  /\ Len(calls) = 3 /\ calls[1].ok /\ ~calls[2].ok /\ ~calls[3].ok
  /\ Len(chunks) >= 2

\* C8: when translate_batch has answered, every item other than a failed one
\* has its result at its own position of the returned list.
C8_BatchIndependent ==
  http # 0 =>
    \A j \in 1..Len(items) :
      (http = 500 /\ j = idx) \/ j <= Len(ResponseTranslated)

\* C9: concatenating _chunk_text(s, max_chars), max_chars >= 1, gives the
\* non-whitespace characters of s in the same order, and a string no longer
\* than max_chars is returned as the one-element list [s].
C9_ConcatIdentity ==
  (pc = "chunked" /\ max_chars >= 1) =>
    LET NonWs(str) == SelectSeq(str, LAMBDA c : c \notin {" ", "\n"})
    IN /\ NonWs(Join(chunks)) = NonWs(text)
       /\ Len(text) <= max_chars => chunks = <<text>>

\* a string was split and the concatenation differs from it in whitespace
C9_Witness ==
  /\ pc = "chunked" /\ max_chars >= 1
  /\ Len(chunks) >= 3
  /\ Join(chunks) # text
  /\ \E i \in 1..Len(text) : text[i] = "a"

\* C10: a token without whitespace of length n * max_chars, n >= 2, is cut
\* into exactly n chunks of max_chars characters.
C10_HardCutExact ==
  (/\ pc = "chunked" /\ max_chars >= 1
   /\ \A i \in 1..Len(text) : text[i] \notin {" ", "\n"}
   /\ Len(text) >= 2 * max_chars
   /\ Len(text) % max_chars = 0)
    => /\ Len(chunks) * max_chars = Len(text)
       /\ \A k \in 1..Len(chunks) : Len(chunks[k]) = max_chars

\* C11: every time.sleep follows a failed provider invocation that is not the
\* last attempt of its _retry_translate, and the next invocation is an attempt
\* on the same chunk; the sleep after the n-th failure in a row lasts
\* backoff * 2^(n-1); each such failure is followed by exactly one sleep, and
\* no sleep follows a successful invocation or the failure that exhausts the
\* retries.
C11_BackoffSchedule ==
  LET \* the failures in a row that end at invocation a
      Run(a) == a - (CHOOSE j \in 0..a :
                       /\ j = 0 \/ calls[j].ok
                       /\ \A m \in (j + 1)..a : ~calls[m].ok)
      Final(a) == calls[a].ok \/ Run(a) > retries
      SleepsAfter(a) == {k \in 1..Len(sleeps) : sleeps[k].after = a}
  IN /\ \A k \in 1..Len(sleeps) :
          LET a == sleeps[k].after
          IN /\ a \in 1..Len(calls)
             /\ ~calls[a].ok
             /\ Run(a) <= retries
             /\ sleeps[k].dur = backoff * (2 ^ (Run(a) - 1))
             /\ IF a < Len(calls)
                THEN /\ calls[a + 1].text = calls[a].text
                     /\ calls[a + 1].line = calls[a].line
                ELSE pc = "try" /\ arg = calls[a].text /\ attempt = Run(a)
             /\ \A k2 \in 1..Len(sleeps) : k2 < k => sleeps[k2].after < a
     /\ \A a \in 1..Len(calls) :
          Cardinality(SleepsAfter(a)) = IF Final(a) THEN 0 ELSE 1

\* three failures on one chunk were followed by sleeps of 3, 6 and 12 seconds,
\* the fourth attempt succeeded and no sleep followed it
C11_Witness ==
  /\ rt = "ok" /\ backoff = 3 /\ retries = 3
  /\ Len(calls) = 4 /\ calls[4].ok
  /\ Len(sleeps) = 3
  /\ sleeps[1].dur = 3 /\ sleeps[2].dur = 6 /\ sleeps[3].dur = 12

====
